---- MODULE Spec2Model ----
(***************************************************************************)
(* State-machine model of the InstaBoost backend (src/app.py): the four    *)
(* tables of the store, the request handlers, and the last request served  *)
(* with its response.  A handler is one atomic step.  The specifications   *)
(* differ in the handlers they run and the request bodies they draw:       *)
(*   Spec        registrations, logins and the writes attributed to a user *)
(*   SpecAuth    register and login                                        *)
(*   SpecOrders  register, free_trial and paid_order                       *)
(*   SpecReviews register, create_review and get_reviews                   *)
(*   SpecChat    send_chat_message and get_chat_messages                   *)
(*   SpecConc    register split at its commit, served by two workers       *)
(***************************************************************************)
EXTENDS Integers, Sequences, FiniteSets, TLC

(***************************************************************************)
(* Bounds of the model.                                                    *)
(***************************************************************************)
MaxOrders == 2
MaxReviews == 2
MaxMessages == 2
MaxTime == 1
MaxUserId == 3

(***************************************************************************)
(* Binary64 arithmetic of the price expression  qty * 0.002  /  qty * 0.001 *)
(* (app.py lines 126 and 128).  Naturals wider than 31 bits are kept as     *)
(* little-endian bit sequences.                                             *)
(***************************************************************************)
\* The significand shared by the literals 0.001 and 0.002:
\* float.hex(0.001) = 0x1.0624dd2f1a9fcp-10, float.hex(0.002) = 0x1.0624dd2f1a9fcp-9.
RateHex == <<1, 0, 6, 2, 4, 13, 13, 2, 15, 1, 10, 9, 15, 12>>

\* Binary64 keeps 53 significant bits.
MantBits == 53

\* 0.001 = significand * 2^-62 and 0.002 = significand * 2^-61.
RateScale(service) == IF service = "followers" THEN 61 ELSE 62

NibbleBits(h) == <<h % 2, (h \div 2) % 2, (h \div 4) % 2, (h \div 8) % 2>>

RECURSIVE HexToBits(_)
HexToBits(hex) ==
    IF hex = <<>> THEN <<>>
    ELSE HexToBits(Tail(hex)) \o NibbleBits(Head(hex))

RECURSIVE Trim(_)
Trim(a) ==
    IF a = <<>> THEN <<>>
    ELSE IF a[Len(a)] = 0 THEN Trim(SubSeq(a, 1, Len(a) - 1))
    ELSE a

RECURSIVE AddC(_, _, _)
AddC(a, b, c) ==
    IF a = <<>> /\ b = <<>> THEN (IF c = 0 THEN <<>> ELSE <<c>>)
    ELSE LET x == IF a = <<>> THEN 0 ELSE Head(a)
             y == IF b = <<>> THEN 0 ELSE Head(b)
             s == x + y + c
         IN  <<s % 2>> \o AddC(IF a = <<>> THEN <<>> ELSE Tail(a),
                               IF b = <<>> THEN <<>> ELSE Tail(b),
                               s \div 2)

Add(a, b) == AddC(a, b, 0)

RECURSIVE MulSmall(_, _)
MulSmall(a, n) ==
    IF n = 0 THEN <<>>
    ELSE IF n % 2 = 1 THEN Add(a, <<0>> \o MulSmall(a, n \div 2))
    ELSE <<0>> \o MulSmall(a, n \div 2)

\* a / 2^k rounded to the nearest integer, ties to even.
RoundShift(a, k) ==
    IF k = 0 THEN a
    ELSE LET q      == SubSeq(a, k + 1, Len(a))
             guard  == IF k <= Len(a) THEN a[k] ELSE 0
             sticky == \E i \in 1..(k - 1) : i <= Len(a) /\ a[i] = 1
             odd    == q # <<>> /\ q[1] = 1
         IN  IF guard = 1 /\ (sticky \/ odd) THEN Add(q, <<1>>) ELSE q

RECURSIVE ToInt(_)
ToInt(a) == IF a = <<>> THEN 0 ELSE Head(a) + 2 * ToInt(Tail(a))

\* The binary64 product qty * rate as [mant, scale]: value = mant * 2^-scale.
FloatMul(service, qty) ==
    LET p    == Trim(MulSmall(Trim(HexToBits(RateHex)), qty))
        k    == IF Len(p) > MantBits THEN Len(p) - MantBits ELSE 0
        r    == RoundShift(p, k)
        over == Len(r) > MantBits
    IN  [mant  |-> IF over THEN SubSeq(r, 2, Len(r)) ELSE r,
         scale |-> RateScale(service) - k - (IF over THEN 1 ELSE 0)]

\* "{x:.2f}" rounds the exact value of x to hundredths, ties to even.
Cents(x) == ToInt(RoundShift(MulSmall(x.mant, 100), x.scale))

(***************************************************************************)
(* Text: a string whose characters matter (amount_usd) is a sequence of    *)
(* one-character strings.                                                  *)
(***************************************************************************)
Digit == <<"0", "1", "2", "3", "4", "5", "6", "7", "8", "9">>

RECURSIVE Digits(_)
Digits(n) ==
    IF n < 10 THEN <<Digit[n + 1]>>
    ELSE Digits(n \div 10) \o <<Digit[(n % 10) + 1]>>

Format2(cents) ==
    Digits(cents \div 100) \o <<".">>
        \o <<Digit[((cents \div 10) % 10) + 1], Digit[(cents % 10) + 1]>>

(***************************************************************************)
(* The store (app.py lines 34-63) and the request in service.              *)
(*   users, orders, reviews, messages : the tables, in insertion order     *)
(*   userSeq  : the next value of User.id's sequence                       *)
(*   tokens   : the bearer tokens issued so far (held by callers)          *)
(*   pending  : per worker, the register request between check and commit  *)
(*   req,resp : the last request served and its response                  *)
(* created_at is kept for SupportMessage only: no handler reads it from    *)
(* the other tables.                                                       *)
(***************************************************************************)
VARIABLES users, userSeq, orders, reviews, messages, tokens, pending, req, resp

vars == <<users, userSeq, orders, reviews, messages, tokens, pending, req, resp>>

\* app.py line 11
SECRET_KEY == "your-secret-key-change-in-production"

(***************************************************************************)
(* Request inputs.                                                         *)
(***************************************************************************)
Usernames == {"alice", "bob"}
Emails == {"a@x.io", "b@x.io"}
Passwords == {"pw1", "pw2"}
Salts == {"s1", "s2"}
Targets == {"@one", "@two"}
Services == {"followers", "likes", "followers_likes"}
Quantities == {99, 100, 155}
Amounts == {<<"0", ".", "2", "0">>, <<"0", ".", "2">>, <<"0", ".", "1", "0">>,
            <<"0", ".", "1", "5">>, <<"0", ".", "1", "6">>}
Ratings == {0, 1, 3, 5, 6}
Comments == {"", "great"}
Names == {"visitor", "support"}
Texts == {"hi", "help"}
Times == 0..MaxTime
Workers == {"w1", "w2"}

Restrict(f, S) == [k \in S |-> f[k]]

\* Every body that carries at most the keys of `full`, with values from it.
Bodies(full) == {Restrict(b, D) : b \in full, D \in SUBSET DOMAIN (CHOOSE c \in full : TRUE)}

\* Every body that lacks at most one key of `full`.
LackOne(full) ==
    LET keys == DOMAIN (CHOOSE c \in full : TRUE)
    IN  {Restrict(b, D) : b \in full, D \in {keys} \cup {keys \ {k} : k \in keys}}

NoAuth == [sub |-> "", key |-> ""]

Idle == [state |-> "idle"]

Init ==
    /\ users = <<>>
    /\ userSeq = 1
    /\ orders = <<>>
    /\ reviews = <<>>
    /\ messages = <<>>
    /\ tokens = {}
    /\ pending = [w \in Workers |-> Idle]
    /\ req = [op |-> "none"]
    /\ resp = [code |-> 0, body |-> [none |-> TRUE]]

(***************************************************************************)
(* Helpers of the handlers.                                                *)
(***************************************************************************)
\* `k in data` for every k of ks
HasAll(data, ks) == ks \subseteq DOMAIN data

\* jsonify({"error": msg}), code; msg is the text as a sequence of pieces.
Error(code, msg) == [code |-> code, body |-> [error |-> msg]]

Ok(code, body) == [code |-> code, body |-> body]

\* jwt.encode({"sub": username}, SECRET_KEY, algorithm="HS256"): the claims
\* and the key that signs them; equal inputs give equal tokens.
create_token(username) == [sub |-> username, key |-> SECRET_KEY]

\* werkzeug generate_password_hash: a fresh salt and the digest of
\* (salt, password); check_password_hash recomputes it with the stored salt.
generate_password_hash(password, salt) == [salt |-> salt, digest |-> <<salt, password>>]

check_password_hash(hash, password) == hash.digest = <<hash.salt, password>>

\* A lookup that finds nobody: the pre-check of register left out.
NoUsersNamed(us, username) == {}

\* User.query.filter_by(username=...).first()
UsersNamed(us, username) == {i \in 1..Len(us) : us[i].username = username}

\* The constraint on username alone.
UsernameViolation(us, row) == \E i \in 1..Len(us) : us[i].username = row.username

\* unique=True on User.username and User.email (lines 36-37): the insert of
\* `row` is refused when either value is already in the table.
UniqueViolation(us, row) ==
    \E i \in 1..Len(us) : us[i].username = row.username \/ us[i].email = row.email

\* The most recent user instead of the first.
LastUser(us) == IF us = <<>> THEN [none |-> TRUE] ELSE us[Len(us)]

\* A stand-in owner with id 1 when the table is empty.
FirstUserOrDefault(us) == IF us = <<>> THEN [id |-> 1] ELSE us[1]

\* User.query.first(): the first row of the table, None when it is empty.
\* The query has no ORDER BY; both engines scan this insert-only table in
\* insertion order.
FirstUser(us) == IF us = <<>> THEN [none |-> TRUE] ELSE us[1]

IsNone(user) == "none" \in DOMAIN user

\* The quantities the price is tabulated for: those of the requests, and
\* more whose price in thousandths of a dollar ends in 5 or is not a tie.
PricedQuantities == Quantities \cup {104, 105, 115, 125, 157, 165, 175, 500, 1000}

\* f"{qty * 0.002:.2f}" and f"{qty * 0.001:.2f}" (lines 126, 128), tabulated
\* over the quantities the requests use.
PriceTable ==
    [service \in {"followers", "likes"} |->
        [qty \in PricedQuantities |-> Format2(Cents(FloatMul(service, qty)))]]

Expected(service, qty) == PriceTable[service][qty]

\* A comparison of values instead of texts: "0.2" passes for "0.20".
Pad2(a) == IF Len(a) >= 2 /\ a[Len(a) - 1] = "." THEN a \o <<"0">> ELSE a

AmountMatchesByValue(provided, expected) == Pad2(provided) = Pad2(expected)

\* provided != expected (line 131) compares the two texts.
AmountMatches(provided, expected) == provided = expected

\* The minimum taken as exclusive.
PricedAbove100(service, qty) ==
    (service = "followers" /\ qty > 100) \/ (service = "likes" /\ qty > 100)

\* The service and quantity test of lines 125-130.
Priced(service, qty) ==
    (service = "followers" /\ qty >= 100) \/ (service = "likes" /\ qty >= 100)

\* The lower bound off by one.
ValidRatingFromZero(rating) == 0 <= rating /\ rating <= 5

\* 1 <= data["rating"] <= 5 (line 150)
ValidRating(rating) == 1 <= rating /\ rating <= 5

\* A trial row that lets the body override the fixed quantity.
TrialOrderFromBody(user, data) ==
    [id |-> Len(orders) + 1, user_id |-> user.id, service_type |-> "followers_likes",
     quantity |-> IF "quantity" \in DOMAIN data THEN data.quantity ELSE 20,
     amount_usd |-> <<"0", ".", "0", "0">>, status |-> "pending",
     instagram_target |-> data.instagram_target]

\* The Order row of free_trial (lines 106-112); status takes its column default.
TrialOrder(user, data) ==
    [id |-> Len(orders) + 1, user_id |-> user.id, service_type |-> "followers_likes",
     quantity |-> 20, amount_usd |-> <<"0", ".", "0", "0">>, status |-> "pending",
     instagram_target |-> data.instagram_target]

\* The Order row of paid_order (lines 136-142).
PaidOrder(user, data) ==
    [id |-> Len(orders) + 1, user_id |-> user.id, service_type |-> data.service_type,
     quantity |-> data.quantity, amount_usd |-> data.amount_usd, status |-> "pending",
     instagram_target |-> data.instagram_target]

\* The Review row of create_review (line 155).
NewReview(user, data) ==
    [id |-> Len(reviews) + 1, user_id |-> user.id, rating |-> data.rating,
     comment |-> data.comment]

\* The User row of register (line 82), before the insert gives it an id.
NewUser(data, salt) ==
    [username |-> data.username, email |-> data.email,
     password_hash |-> generate_password_hash(data.password, salt)]

\* The SupportMessage row of send_chat_message (line 171); is_admin takes its
\* column default and created_at the clock reading `now`.
NewMessage(data, now) ==
    [id |-> Len(messages) + 1, name |-> data.name, message |-> data.message,
     is_admin |-> FALSE, created_at |-> now]

\* db.session.add(user); db.session.commit() (lines 83-85).  A refused insert
\* raises out of the handler (500) and stores nothing; PostgreSQL has then
\* consumed a sequence value, SQLite has not.
CommitUser(row) ==
    IF UniqueViolation(users, row)
    THEN /\ users' = users
         /\ userSeq' \in {userSeq} \cup (IF userSeq <= MaxUserId THEN {userSeq + 1} ELSE {})
         /\ resp' = Error(500, <<"IntegrityError">>)
    ELSE /\ userSeq <= MaxUserId
         /\ users' = Append(users, [id |-> userSeq] @@ row)
         /\ userSeq' = userSeq + 1
         /\ resp' = Ok(201, [id |-> userSeq, username |-> row.username])

(***************************************************************************)
(* The handlers.                                                           *)
(***************************************************************************)
\* POST /api/auth/register (lines 74-85), one request at a time.
register(data, salt) ==
    /\ req' = [op |-> "register", data |-> data, auth |-> NoAuth]
    /\ UNCHANGED <<orders, reviews, messages, tokens, pending>>
    /\ IF ~HasAll(data, {"username", "email", "password"})
       THEN resp' = Error(400, <<"Missing fields">>) /\ UNCHANGED <<users, userSeq>>
       ELSE IF UsersNamed(users, data.username) # {}
       THEN resp' = Error(400, <<"Username exists">>) /\ UNCHANGED <<users, userSeq>>
       ELSE CommitUser(NewUser(data, salt))

\* register up to its commit (lines 76-82), served by worker w.
register_check(w, data, salt) ==
    /\ pending[w] = Idle
    /\ UNCHANGED <<users, userSeq, orders, reviews, messages, tokens>>
    /\ IF ~HasAll(data, {"username", "email", "password"})
       THEN /\ req' = [op |-> "register", data |-> data, auth |-> NoAuth]
            /\ resp' = Error(400, <<"Missing fields">>)
            /\ UNCHANGED pending
       ELSE IF UsersNamed(users, data.username) # {}
       THEN /\ req' = [op |-> "register", data |-> data, auth |-> NoAuth]
            /\ resp' = Error(400, <<"Username exists">>)
            /\ UNCHANGED pending
       ELSE /\ pending' = [pending EXCEPT ![w] = [state |-> "checked", data |-> data,
                                                  row |-> NewUser(data, salt)]]
            /\ UNCHANGED <<req, resp>>

\* The commit of worker w's register request (lines 83-85).
register_commit(w) ==
    /\ pending[w] # Idle
    /\ req' = [op |-> "register", data |-> pending[w].data, auth |-> NoAuth]
    /\ CommitUser(pending[w].row)
    /\ pending' = [pending EXCEPT ![w] = Idle]
    /\ UNCHANGED <<orders, reviews, messages, tokens>>

\* POST /api/auth/login (lines 87-96)
login(data) ==
    /\ req' = [op |-> "login", data |-> data, auth |-> NoAuth]
    /\ UNCHANGED <<users, userSeq, orders, reviews, messages, pending>>
    /\ IF ~HasAll(data, {"username", "password"})
       THEN resp' = Error(400, <<"Missing credentials">>) /\ UNCHANGED tokens
       ELSE LET found == UsersNamed(users, data.username)
                user  == users[CHOOSE i \in found : \A j \in found : i <= j]
            IN  IF found = {} \/ ~check_password_hash(user.password_hash, data.password)
                THEN resp' = Error(401, <<"Invalid credentials">>) /\ UNCHANGED tokens
                ELSE /\ resp' = Ok(200, [access_token |-> create_token(user.username),
                                         token_type |-> "bearer"])
                     /\ tokens' = tokens \cup {create_token(user.username)}

\* POST /api/orders/free-trial (lines 98-115)
free_trial(data, auth) ==
    /\ req' = [op |-> "free_trial", data |-> data, auth |-> auth]
    /\ UNCHANGED <<users, userSeq, reviews, messages, tokens, pending>>
    /\ IF DOMAIN data = {} \/ "instagram_target" \notin DOMAIN data
       THEN resp' = Error(400, <<"instagram_target required">>) /\ UNCHANGED orders
       ELSE LET user == FirstUser(users)
            IN  IF IsNone(user)
                THEN resp' = Error(400, <<"Register first">>) /\ UNCHANGED orders
                ELSE /\ Len(orders) < MaxOrders
                     /\ orders' = Append(orders, TrialOrder(user, data))
                     /\ resp' = Ok(201, [id |-> Len(orders) + 1, status |-> "pending"])

\* POST /api/orders/paid (lines 117-145)
paid_order(data, auth) ==
    /\ req' = [op |-> "paid_order", data |-> data, auth |-> auth]
    /\ UNCHANGED <<users, userSeq, reviews, messages, tokens, pending>>
    /\ IF ~HasAll(data, {"service_type", "quantity", "amount_usd", "instagram_target"})
       THEN resp' = Error(400, <<"Missing fields">>) /\ UNCHANGED orders
       ELSE IF ~Priced(data.service_type, data.quantity)
       THEN resp' = Error(400, <<"Min 100, service: followers/likes">>) /\ UNCHANGED orders
       ELSE LET expected == Expected(data.service_type, data.quantity)
                user     == FirstUser(users)
            IN  IF ~AmountMatches(data.amount_usd, expected)
                THEN resp' = Error(400, <<"Expected $">> \o expected) /\ UNCHANGED orders
                ELSE IF IsNone(user)
                THEN resp' = Error(400, <<"Register first">>) /\ UNCHANGED orders
                ELSE /\ Len(orders) < MaxOrders
                     /\ orders' = Append(orders, PaidOrder(user, data))
                     /\ resp' = Ok(201, [id |-> Len(orders) + 1, status |-> "pending"])

\* POST /api/reviews (lines 147-158)
create_review(data, auth) ==
    /\ req' = [op |-> "create_review", data |-> data, auth |-> auth]
    /\ UNCHANGED <<users, userSeq, orders, messages, tokens, pending>>
    /\ IF DOMAIN data = {} \/ "rating" \notin DOMAIN data \/ "comment" \notin DOMAIN data
          \/ ~ValidRating(data.rating)
       THEN /\ resp' = Error(400, <<"Valid rating (1-5) and comment required">>)
            /\ UNCHANGED reviews
       ELSE LET user == FirstUser(users)
            IN  IF IsNone(user)
                THEN resp' = Error(400, <<"Register first">>) /\ UNCHANGED reviews
                ELSE /\ Len(reviews) < MaxReviews
                     /\ reviews' = Append(reviews, NewReview(user, data))
                     /\ resp' = Ok(201, [id |-> Len(reviews) + 1])

\* GET /api/reviews (lines 160-163)
get_reviews ==
    /\ req' = [op |-> "get_reviews", data |-> <<>>, auth |-> NoAuth]
    /\ resp' = Ok(200, [i \in 1..Len(reviews) |->
                          [id |-> reviews[i].id, rating |-> reviews[i].rating,
                           comment |-> reviews[i].comment]])
    /\ UNCHANGED <<users, userSeq, orders, reviews, messages, tokens, pending>>

\* POST /api/chat/send (lines 166-174); `now` is what datetime.utcnow returns
\* in the serving process when the row is flushed.  Line 169 is cut short in
\* the source after `"name" not in`; it is read as `"name" not in data`.
send_chat_message(data, now) ==
    /\ req' = [op |-> "send_chat_message", data |-> data, auth |-> NoAuth]
    /\ UNCHANGED <<users, userSeq, orders, reviews, tokens, pending>>
    /\ IF DOMAIN data = {} \/ "message" \notin DOMAIN data \/ "name" \notin DOMAIN data
       THEN resp' = Error(400, <<"name and message required">>) /\ UNCHANGED messages
       ELSE /\ Len(messages) < MaxMessages
            /\ messages' = Append(messages, NewMessage(data, now))
            /\ resp' = Ok(201, [status |-> "sent"])

\* The orders in which ORDER BY created_at may return the rows: every
\* arrangement with non-decreasing created_at (rows with equal keys come in
\* an order SQL leaves to the engine).
SortedBy(rows) ==
    {p \in [1..Len(rows) -> 1..Len(rows)] :
        /\ \A i, j \in 1..Len(rows) : i # j => p[i] # p[j]
        /\ \A i, j \in 1..Len(rows) : i < j => rows[p[i]].created_at <= rows[p[j]].created_at}

\* One entry of the list get_chat_messages returns (line 180).
MessageView(m) == [name |-> m.name, message |-> m.message, is_admin |-> m.is_admin]

\* GET /api/chat/messages (lines 176-182)
get_chat_messages ==
    /\ req' = [op |-> "get_chat_messages", data |-> <<>>, auth |-> NoAuth]
    /\ \E p \in SortedBy(messages) :
          resp' = Ok(200, [i \in 1..Len(messages) |-> MessageView(messages[p[i]])])
    /\ UNCHANGED <<users, userSeq, orders, reviews, messages, tokens, pending>>

(***************************************************************************)
(* Request bodies.                                                         *)
(***************************************************************************)
RegisterBodies == LackOne([username : Usernames, email : Emails, password : {"pw1"}])

\* Two accounts that never collide on email.
TwoAccounts ==
    {[username |-> "alice", email |-> "a@x.io", password |-> "pw1"],
     [username |-> "bob", email |-> "b@x.io", password |-> "pw1"]}

LoginBodies == LackOne([username : Usernames, password : Passwords])

\* instagram_target, with any of the extra keys a caller may add.
TrialBodies ==
    Bodies([instagram_target : Targets, quantity : {100}, service_type : {"followers"},
            amount_usd : {<<"0", ".", "2", "0">>}])

PaidBodies ==
    [service_type : Services, quantity : Quantities, amount_usd : Amounts,
     instagram_target : {"@one"}]
        \cup LackOne([service_type : {"followers"}, quantity : {99, 100},
                      amount_usd : {<<"0", ".", "2", "0">>}, instagram_target : {"@one"}])

ReviewBodies == LackOne([rating : Ratings, comment : Comments])

ChatBodies == LackOne([name : Names, message : Texts])

\* The Authorization header a caller may send: none, or a token it was issued.
AuthHeaders == {NoAuth} \cup tokens

(***************************************************************************)
(* Specifications.                                                         *)
(***************************************************************************)
\* Registration and login.
NextAuth ==
    \/ \E data \in RegisterBodies, salt \in Salts : register(data, salt)
    \/ \E data \in LoginBodies : login(data)

SpecAuth == Init /\ [][NextAuth]_vars

\* Registration by two workers whose requests interleave at the commit.
NextConc ==
    \/ \E w \in Workers, data \in RegisterBodies : register_check(w, data, "s1")
    \/ \E w \in Workers : register_commit(w)

SpecConc == Init /\ [][NextConc]_vars

\* Orders.
NextOrders ==
    \/ \E data \in TwoAccounts : register(data, "s1")
    \/ \E data \in TrialBodies : free_trial(data, NoAuth)
    \/ \E data \in PaidBodies : paid_order(data, NoAuth)

SpecOrders == Init /\ [][NextOrders]_vars

\* Reviews.
NextReviews ==
    \/ \E data \in TwoAccounts : register(data, "s1")
    \/ \E data \in ReviewBodies : create_review(data, NoAuth)
    \/ get_reviews

SpecReviews == Init /\ [][NextReviews]_vars

\* The support chat.
NextChat ==
    \/ \E data \in ChatBodies, now \in Times : send_chat_message(data, now)
    \/ get_chat_messages

SpecChat == Init /\ [][NextChat]_vars

\* Registrations, logins and every write that is attributed to a user, with
\* whatever token the caller holds.
Next ==
    \/ \E data \in TwoAccounts : register(data, "s1")
    \/ \E data \in [username : Usernames, password : {"pw1"}] : login(data)
    \/ \E auth \in AuthHeaders : free_trial([instagram_target |-> "@one"], auth)
    \/ \E auth \in AuthHeaders :
          \E amount \in {<<"0", ".", "2", "0">>, <<"0", ".", "2">>} :
             paid_order([service_type |-> "followers", quantity |-> 100,
                         amount_usd |-> amount, instagram_target |-> "@one"], auth)
    \/ \E auth \in AuthHeaders :
          \E rating \in {0, 5} : create_review([rating |-> rating, comment |-> "great"], auth)

Spec == Init /\ [][Next]_vars

(***************************************************************************)
(* Definitions the properties use.                                         *)
(***************************************************************************)
PaidKeys == {"service_type", "quantity", "amount_usd", "instagram_target"}

MinQuantityError == Error(400, <<"Min 100, service: followers/likes">>)

NoUserError == Error(400, <<"Register first">>)

\* A paid-order request with all four keys, a paid service and quantity >= 100.
PaidCase(r) ==
    /\ r.op = "paid_order"
    /\ HasAll(r.data, PaidKeys)
    /\ r.data.service_type \in {"followers", "likes"}
    /\ r.data.quantity >= 100

DigitValue(ch) == CHOOSE d \in 0..9 : Digit[d + 1] = ch

RECURSIVE ParseInt(_)
ParseInt(a) ==
    IF a = <<>> THEN 0 ELSE 10 * ParseInt(SubSeq(a, 1, Len(a) - 1)) + DigitValue(a[Len(a)])

IsDigit(ch) == \E d \in 1..10 : Digit[d] = ch

\* text is digits, a point and two digits, and its value is a nearest
\* hundredth of mills thousandths (either neighbour on a tie).
IsRendering(text, mills) ==
    /\ Len(text) >= 4
    /\ text[Len(text) - 2] = "."
    /\ \A i \in (1..Len(text)) \ {Len(text) - 2} : IsDigit(text[i])
    /\ LET c == 100 * ParseInt(SubSeq(text, 1, Len(text) - 3))
                  + ParseInt(SubSeq(text, Len(text) - 1, Len(text)))
       IN  10 * c - mills <= 5 /\ mills - 10 * c <= 5

Mills(service, qty) == IF service = "followers" THEN 2 * qty ELSE qty

(***************************************************************************)
(* C1.  A paid-order request with all four fields, service followers or    *)
(* likes, quantity >= 100 and a user in the store is persisted (201,       *)
(* pending) exactly when amount_usd is the text f"{qty * rate:.2f}";       *)
(* otherwise it fails with 400, the message carries the expected text and  *)
(* no order is added.  Every stored followers/likes order carries the      *)
(* price of its service and quantity, and every tabulated price is a       *)
(* two-decimal rendering of quantity x rate.                               *)
(***************************************************************************)
C1_Step ==
    (PaidCase(req') /\ users # <<>>) =>
        LET d     == req'.data
            price == Expected(d.service_type, d.quantity)
        IN  IF d.amount_usd = price
            THEN /\ resp' = Ok(201, [id |-> Len(orders) + 1, status |-> "pending"])
                 /\ orders' = Append(orders,
                        [id |-> Len(orders) + 1, user_id |-> users[1].id,
                         service_type |-> d.service_type, quantity |-> d.quantity,
                         amount_usd |-> price, status |-> "pending",
                         instagram_target |-> d.instagram_target])
            ELSE /\ resp' = Error(400, <<"Expected $">> \o price)
                 /\ orders' = orders

C1_Stored ==
    \A i \in 1..Len(orders) :
        orders[i].service_type \in {"followers", "likes"} =>
            orders[i].amount_usd = Expected(orders[i].service_type, orders[i].quantity)

C1_Table ==
    \A service \in {"followers", "likes"}, qty \in PricedQuantities :
        IsRendering(Expected(service, qty), Mills(service, qty))

\* C1: a complete, priced paid order with a user present is stored iff amount_usd
\* is the expected text, else 400 naming it and no order; stored prices agree.
C1_PaidOrderPricing == [][C1_Step]_vars /\ [](C1_Stored /\ C1_Table)

\* An order for 155 likes accepted at "0.15", the side binary64 takes on 0.155.
C1_Witness ==
    /\ PaidCase(req)
    /\ req.data.service_type = "likes" /\ req.data.quantity = 155
    /\ resp.code = 201
    /\ orders[Len(orders)].amount_usd = <<"0", ".", "1", "5">>
    /\ orders[Len(orders)].quantity = 155

(***************************************************************************)
(* C2.  As claimed: a paid-order request whose quantity is below 100, or   *)
(* whose service_type is not followers or likes, fails with the            *)
(* service-or-quantity error whatever else it carries, and adds no order.  *)
(***************************************************************************)
C2_Case(r) ==
    /\ r.op = "paid_order"
    /\ \/ "quantity" \in DOMAIN r.data /\ r.data.quantity < 100
       \/ "service_type" \in DOMAIN r.data /\ r.data.service_type \notin {"followers", "likes"}

C2_OriginalStep == C2_Case(req') => (resp' = MinQuantityError /\ orders' = orders)

\* C2 as claimed: quantity < 100 or a foreign service_type always gives the
\* service-or-quantity error and no order.
C2_Original == [][C2_OriginalStep]_vars

(***************************************************************************)
(* C2, amended.  A paid-order request that carries all four fields and     *)
(* whose quantity is below 100, or whose service_type is not followers or  *)
(* likes, fails with the service-or-quantity error whatever amount_usd it  *)
(* supplies, and adds no order; quantity exactly 100 with followers or     *)
(* likes is not rejected by this rule.                                     *)
(***************************************************************************)
C2_AmendedStep ==
    /\ (C2_Case(req') /\ HasAll(req'.data, PaidKeys)) =>
           (resp' = MinQuantityError /\ orders' = orders)
    /\ (PaidCase(req') /\ req'.data.quantity = 100) => resp' # MinQuantityError

\* C2 amended: the same for requests that carry all four fields; quantity 100
\* is not refused by the rule.
C2_Amended == [][C2_AmendedStep]_vars

\* 99 followers offered at the price of 100, refused for the quantity.
C2_Witness ==
    /\ req.op = "paid_order" /\ HasAll(req.data, PaidKeys)
    /\ req.data.service_type = "followers" /\ req.data.quantity = 99
    /\ req.data.amount_usd = <<"0", ".", "2", "0">>
    /\ resp = MinQuantityError
    /\ users # <<>>

(***************************************************************************)
(* C3.  As claimed: a register request with username, email and password   *)
(* fails with "Username exists" (400) and leaves the users unchanged if    *)
(* the username is present; otherwise it stores exactly one new user with  *)
(* that username and returns 201 with the new id and username.             *)
(***************************************************************************)
RegisterCase(r) == r.op = "register" /\ HasAll(r.data, {"username", "email", "password"})

Registered(d) ==
    /\ Len(users') = Len(users) + 1
    /\ SubSeq(users', 1, Len(users)) = users
    /\ LET u == users'[Len(users')]
       IN  /\ u.username = d.username
           /\ u.email = d.email
           /\ check_password_hash(u.password_hash, d.password)
           /\ \A i \in 1..Len(users) : users[i].id # u.id
           /\ resp' = Ok(201, [id |-> u.id, username |-> d.username])

C3_OriginalStep ==
    RegisterCase(req') =>
        IF \E i \in 1..Len(users) : users[i].username = req'.data.username
        THEN resp' = Error(400, <<"Username exists">>) /\ users' = users
        ELSE Registered(req'.data)

\* C3 as claimed: register fails on a present username, else stores one user (201).
C3_Original == [][C3_OriginalStep]_vars

(***************************************************************************)
(* C3, amended.  Such a request fails with "Username exists" (400) and     *)
(* leaves the users unchanged if the username is present; otherwise, if    *)
(* the email is not present either, it stores exactly one new user with    *)
(* that username and returns 201 with the new id and username; and if the  *)
(* email is already present the insert is refused by the email constraint, *)
(* the request ends in an unhandled error (500) and the users are          *)
(* unchanged.                                                              *)
(***************************************************************************)
C3_AmendedStep ==
    RegisterCase(req') =>
        IF \E i \in 1..Len(users) : users[i].username = req'.data.username
        THEN resp' = Error(400, <<"Username exists">>) /\ users' = users
        ELSE IF \E i \in 1..Len(users) : users[i].email = req'.data.email
        THEN resp'.code = 500 /\ users' = users
        ELSE Registered(req'.data)

\* C3 amended: ... else stores one user (201) if the email is free, and ends in
\* an unhandled error (500) with the users unchanged if the email is taken.
C3_Amended == [][C3_AmendedStep]_vars

\* A fresh username with an email already taken: refused at the commit.
C3_Witness ==
    /\ RegisterCase(req)
    /\ resp.code = 500
    /\ \E i \in 1..Len(users) : users[i].email = req.data.email
    /\ \A i \in 1..Len(users) : users[i].username # req.data.username

(***************************************************************************)
(* C4.  GET /api/chat/messages returns every stored message exactly once   *)
(* and in the order the messages were sent, whatever timestamps they got.  *)
(***************************************************************************)
\* C4: the list returned is the stored messages in the order they were sent.
C4_SendOrder ==
    req.op = "get_chat_messages" =>
        resp.body = [i \in 1..Len(messages) |-> MessageView(messages[i])]

(***************************************************************************)
(* C5.  Every successful free-trial request persists exactly one order     *)
(* with service_type followers_likes, quantity 20, amount_usd "0.00" and   *)
(* status pending, whatever else the body carries; only instagram_target   *)
(* comes from the request.                                                 *)
(***************************************************************************)
C5_Step ==
    (req'.op = "free_trial" /\ resp'.code = 201) =>
        orders' = Append(orders,
            [id |-> Len(orders) + 1, user_id |-> users[1].id,
             service_type |-> "followers_likes", quantity |-> 20,
             amount_usd |-> <<"0", ".", "0", "0">>, status |-> "pending",
             instagram_target |-> req'.data.instagram_target])

\* C5: a successful free trial appends exactly the fixed order for its target.
C5_FreeTrialFixed == [][C5_Step]_vars

\* A trial request that also names a quantity, an amount and a service.
C5_Witness ==
    /\ req.op = "free_trial"
    /\ {"quantity", "amount_usd", "service_type"} \subseteq DOMAIN req.data
    /\ resp.code = 201
    /\ orders[Len(orders)].quantity = 20
    /\ orders[Len(orders)].instagram_target = "@two"

(***************************************************************************)
(* C6.  A create-review request whose rating is outside 1..5 is rejected   *)
(* with 400 and adds no review; with a user in the store and a comment     *)
(* present, a rating of 1 to 5 is accepted with 201.  Every stored review  *)
(* has a rating in 1..5.                                                   *)
(***************************************************************************)
C6_Step ==
    (req'.op = "create_review" /\ "rating" \in DOMAIN req'.data) =>
        IF req'.data.rating \notin 1..5
        THEN /\ resp' = Error(400, <<"Valid rating (1-5) and comment required">>)
             /\ reviews' = reviews
        ELSE ("comment" \in DOMAIN req'.data /\ users # <<>>) =>
                /\ resp' = Ok(201, [id |-> Len(reviews) + 1])
                /\ Len(reviews') = Len(reviews) + 1
                /\ reviews'[Len(reviews')].rating = req'.data.rating

C6_Stored == \A i \in 1..Len(reviews) : reviews[i].rating \in 1..5

\* C6: ratings outside 1..5 are refused, ratings 1..5 accepted, stored ratings in 1..5.
C6_RatingBounds == [][C6_Step]_vars /\ []C6_Stored

\* Ratings 1 and 5 stored, and a rating of 6 just refused.
C6_Witness ==
    /\ req.op = "create_review" /\ "rating" \in DOMAIN req.data /\ req.data.rating = 6
    /\ resp.code = 400
    /\ \E i, j \in 1..Len(reviews) : reviews[i].rating = 1 /\ reviews[j].rating = 5

(***************************************************************************)
(* C7.  Every stored order and review belongs to the first user of the     *)
(* store, whoever has logged in and whatever token the caller holds.       *)
(***************************************************************************)
\* C7: every stored order and review has the first user's id as user_id.
C7_FirstUserOwns ==
    /\ \A i \in 1..Len(orders) : users # <<>> /\ orders[i].user_id = users[1].id
    /\ \A i \in 1..Len(reviews) : users # <<>> /\ reviews[i].user_id = users[1].id

\* The second user logged in and ordered with its token; the first user owns it.
C7_Witness ==
    /\ Len(users) = 2
    /\ req.op = "paid_order"
    /\ req.auth = create_token(users[2].username)
    /\ req.auth \in tokens
    /\ resp.code = 201
    /\ orders[Len(orders)].user_id = users[1].id
    /\ reviews # <<>>

(***************************************************************************)
(* C8.  While there is no user, every otherwise valid free-trial, paid     *)
(* order and create-review request fails with "Register first" (400); a    *)
(* non-empty order or review table implies a non-empty user table.         *)
(***************************************************************************)
OtherwiseValid(r) ==
    \/ r.op = "free_trial" /\ "instagram_target" \in DOMAIN r.data
    \/ PaidCase(r) /\ r.data.amount_usd = Expected(r.data.service_type, r.data.quantity)
    \/ /\ r.op = "create_review"
       /\ HasAll(r.data, {"rating", "comment"})
       /\ r.data.rating \in 1..5

\* C8: with no user, valid writes get "Register first" and the tables stay empty.
C8_NoUserNoWrite ==
    /\ (users = <<>> /\ OtherwiseValid(req)) => resp = NoUserError
    /\ users = <<>> => (orders = <<>> /\ reviews = <<>>)

\* A correctly priced order refused because nobody has registered.
C8_Witness ==
    /\ users = <<>>
    /\ PaidCase(req) /\ OtherwiseValid(req)
    /\ resp = NoUserError

(***************************************************************************)
(* C9.  Every stored review has a non-empty comment.                       *)
(***************************************************************************)
\* C9: no stored review has the empty comment.
C9_NonEmptyComment == \A i \in 1..Len(reviews) : reviews[i].comment # ""

(***************************************************************************)
(* C10.  Under every interleaving of register requests split at the        *)
(* commit, no two stored users share a username or an email.               *)
(***************************************************************************)
\* C10: no two stored users share a username or an email.
C10_UniqueUsers ==
    \A i, j \in 1..Len(users) :
        i # j => (users[i].username # users[j].username /\ users[i].email # users[j].email)

\* Two requests for one username both passed the pre-check; the second
\* commit was refused.
C10_Witness ==
    /\ RegisterCase(req)
    /\ resp.code = 500
    /\ \E i \in 1..Len(users) : users[i].username = req.data.username

====
